---- MODULE Spec2Model ----
(***************************************************************************)
(* Model of the Daily Planner backend (backend/server.js): the JSON file   *)
(* that persists the tasks, and the HTTP handlers of /api/tasks.           *)
(*                                                                         *)
(* Node runs every callback to completion on one thread and the file is    *)
(* read and written synchronously, so each callback is one atomic action:  *)
(*   - the 'request' callback (server.js:100-190), which calls loadTasks   *)
(*     at once and, for GET and DELETE, also answers at once;              *)
(*   - the 'end' callback of a POST or a PUT (server.js:123, 154), which   *)
(*     runs later, once the body has been received, on the array that the  *)
(*     'request' callback loaded.                                          *)
(* Between the two callbacks of one request any callback of another        *)
(* request may run.                                                        *)
(*                                                                         *)
(* Two more programs of the repository are modelled, each in a             *)
(* specification of its own:                                               *)
(*   - SWSpec: the service worker (frontend/service-worker.js), its        *)
(*     install, activate and fetch listeners and the browser's caches;     *)
(*   - PageSpec: the page (frontend/app.js) against the server, every      *)
(*     response travelling back to the page for as long as it likes.       *)
(***************************************************************************)
EXTENDS Integers, Sequences, FiniteSets, TLC

\* ------------------------------------------------------------------ bounds
\* Date.now() takes the values 1..MaxNow (milliseconds).
MaxNow == 2
\* Number of POST, PUT and DELETE requests the server receives in one run.
MaxRequests == 3
\* The site is deployed in the versions 1..MaxVersion.
MaxVersion == 2

\* The POST and PUT requests, numbered in the order of their arrival.
Slots == 1..MaxRequests

VARIABLES
    tasksFile,  \* content of backend/tasks.json
    reqs,       \* per request: what its 'request' callback left for its 'end' callback
    served,     \* number of POST, PUT and DELETE requests received so far
    now,        \* Date.now()
    up,         \* FALSE once an uncaught exception has ended the process
    resp,       \* what the step just taken sent to its client (NoResp if nothing)
    issued,     \* history: the ids Create has put into a new task
    deleted,    \* history: the ids a DELETE answered 200 for and that no
                \* Create has issued since
    trip,       \* history: how far the run "Create answered 201, the server
                \* was started again, List was asked" has come, and its task
    caches,     \* service worker: the browser's CacheStorage, cache name -> entries
    worker,     \* service worker: its phase, and the cache.put calls in progress
    swOut,      \* service worker: how the last fetch event was answered
    netVer,     \* the version of the site the network serves now
    acts,       \* page: per user action, how far its requests have come
    rendered    \* page: the tasks renderTasks has last put into the list

serverVars == <<tasksFile, reqs, served, now, up, resp, issued, deleted>>
workerVars == <<caches, worker, swOut, netVer>>
pageVars == <<acts, rendered>>
vars == <<serverVars, trip, workerVars, pageVars>>

\* ------------------------------------------------------------ JSON values
\* The empty object {} : a function with no key.
NoFields == [k \in {} |-> ""]

\* obj[k], or "" where JavaScript yields a falsy value (undefined or '').
Has(obj, k) == k \in DOMAIN obj
Falsy(obj, k) == ~Has(obj, k) \/ obj[k] = ""
OrEmpty(obj, k) == IF Falsy(obj, k) THEN "" ELSE obj[k]

\* A parsed JSON document: an array of tasks, or a value that is no array
\* (an object, null, a number, a string).
Arr(items) == [arr |-> TRUE, items |-> items]
NonArr == [arr |-> FALSE, items |-> <<>>]

\* The text of tasks.json, by what JSON.parse and readFileSync make of it.
\*   absent   : readFileSync throws (no such file, or not readable)
\*   empty    : zero bytes, JSON.parse throws
\*   garbage  : text that is not JSON (also a partly written document)
\*   nonarray : JSON whose top level value is not an array
\*   array    : JSON.stringify(tasks, null, 2)
FileOf(kind, items) == [kind |-> kind, items |-> items]
stringify(tasks) == FileOf("array", tasks)

\* server.js:18-26
loadTasks(f) ==
    CASE f.kind \in {"absent", "empty", "garbage"} -> Arr(<<>>)
      [] f.kind = "nonarray" -> NonArr
      [] f.kind = "array" -> Arr(f.items)

\* server.js:35-37. writeFileSync opens the file with flag 'w' (truncate)
\* and then writes; w is what the file system does with it:
\*   ok      : the whole text is written
\*   eopen   : the open fails, nothing is changed, the call throws
\*   partial : the file is truncated, the write stops part-way, the call throws
WriteOutcomes == {"ok", "eopen", "partial"}
saveThrows(w) == w # "ok"

\* Mutant of saveTasks: the collection is kept in memory and the file is
\* left as it was.
saveTasks_memoryOnly(f, tasks, w) == f

\* server.js:35-37
saveTasks(f, tasks, w) ==
    CASE w = "ok" -> stringify(tasks)
      [] w = "eopen" -> f
      [] w = "partial" -> FileOf("garbage", <<>>)

\* --------------------------------------------------------- request bodies
\* The text of a request body, by what JSON.parse(body || '{}') makes of it:
\*   malformed : JSON.parse throws
\*   null      : the JSON value null
\*   empty     : '' , replaced by '{}'
\*   object    : a JSON object with the keys of fields
Body(kind, fields) == [kind |-> kind, fields |-> fields]
Obj(fields) == Body("object", fields)
parseThrows(body) == body.kind = "malformed"
parsesToNull(body) == body.kind = "null"
\* The keys an object yields to destructuring and to spread; null spreads
\* to nothing and '' is parsed as {}.
fieldsOf(body) == IF body.kind = "object" THEN body.fields ELSE NoFields

PostBodies ==
    { Body("malformed", NoFields),
      Body("null", NoFields),
      Body("empty", NoFields),
      Obj([id |-> "zz", date |-> "d1", startTime |-> "s1", endTime |-> "e1",
           description |-> "x", completed |-> TRUE]),
      Obj([date |-> "d1", description |-> "x"]),
      Obj([date |-> "", startTime |-> "s1", description |-> "x"]),
      Obj([date |-> "d1", startTime |-> "s1", description |-> ""]) }

PutBodies ==
    { Body("malformed", NoFields),
      Body("null", NoFields),
      Body("empty", NoFields),
      Obj([completed |-> TRUE]),
      Obj([id |-> "zz", description |-> ""]) }

\* The ids a PUT or DELETE path may carry: every value of
\* Date.now().toString(), known to the store or not.
PathIds == { ToString(n) : n \in 1..MaxNow }

\* -------------------------------------------------------------- responses
NoOut == [kind |-> "none", items |-> <<>>, error |-> ""]
OutError(msg) == [kind |-> "error", items |-> <<>>, error |-> msg]
OutTask(t) == [kind |-> "task", items |-> <<t>>, error |-> ""]
\* JSON.stringify of what loadTasks returned: the array, or the other value.
OutLoaded(tasks) ==
    [kind |-> IF tasks.arr THEN "tasks" ELSE "json", items |-> tasks.items, error |-> ""]

\* server.js:46-49, with what the handler did to the file and how it ended.
\*   fault : "none", "write" (saveTasks threw), "store" (the loaded value is
\*           no array, so a method call on it threw a TypeError)
\*   crash : the exception was thrown outside any try block
jsonResponse(status, out, f, fault) ==
    [status |-> status, out |-> out, file |-> f, fault |-> fault, crash |-> FALSE]
uncaught(f, fault) ==
    [status |-> 0, out |-> NoOut, file |-> f, fault |-> fault, crash |-> TRUE]

\* ------------------------------------------------------------ the handlers
\* Mutant of missingRequired: the rule as the README gives it ("Requires a
\* date and description"), without startTime.
missingRequired_withoutStartTime(incoming) ==
    Falsy(incoming, "date") \/ Falsy(incoming, "description")

\* server.js:128
missingRequired(incoming) ==
    Falsy(incoming, "date") \/ Falsy(incoming, "startTime") \/ Falsy(incoming, "description")

\* server.js:131-139. A key whose value is undefined is left out by
\* JSON.stringify, in the file and in the response alike.
newTask(incoming, t) ==
    [ k \in {"id", "endTime", "category", "completed"}
            \cup ({"date", "startTime", "description"} \cap DOMAIN incoming) |->
        CASE k = "id" -> ToString(t)
          [] k = "endTime" -> OrEmpty(incoming, "endTime")
          [] k = "category" -> OrEmpty(incoming, "category")
          [] k = "completed" -> FALSE
          [] OTHER -> incoming[k] ]

\* tasks.findIndex(t => t.id === id): the first position (from 1), or -1.
findIndex(items, id) ==
    IF \E i \in 1..Len(items) : items[i].id = id
    THEN CHOOSE i \in 1..Len(items) :
            /\ items[i].id = id
            /\ \A j \in 1..(i - 1) : items[j].id # id
    ELSE -1

\* Mutant of spread: { ...update, id }, the stored task is replaced, not merged.
spread_replace(task, update, id) ==
    [ k \in (DOMAIN update) \cup {"id"} |-> IF k = "id" THEN id ELSE update[k] ]

\* Mutant of spread: { ...tasks[index], id, ...update }, an id of the body wins.
spread_bodyIdWins(task, update, id) ==
    [ k \in (DOMAIN task) \cup (DOMAIN update) \cup {"id"} |->
        IF k \in DOMAIN update THEN update[k]
        ELSE IF k = "id" THEN id
        ELSE task[k] ]

\* Mutant of spread: an empty string of the body does not overwrite the
\* stored value.
spread_keepsNonEmpty(task, update, id) ==
    [ k \in (DOMAIN task) \cup (DOMAIN update) \cup {"id"} |->
        IF k = "id" THEN id
        ELSE IF k \notin DOMAIN update THEN task[k]
        ELSE IF k # "completed" /\ update[k] = "" /\ k \in DOMAIN task THEN task[k]
        ELSE update[k] ]

\* server.js:162  { ...tasks[index], ...update, id }
spread(task, update, id) ==
    [ k \in (DOMAIN task) \cup (DOMAIN update) \cup {"id"} |->
        IF k = "id" THEN id
        ELSE IF k \in DOMAIN update THEN update[k]
        ELSE task[k] ]

\* tasks.splice(index, 1): the array without position index.
splice(items, index) ==
    [ i \in 1..(Len(items) - 1) |-> IF i < index THEN items[i] ELSE items[i + 1] ]

\* server.js:123-146, the 'end' callback of POST /api/tasks.
\* f: the file now, tasks: what the 'request' callback loaded, t: Date.now().
postEnd(f, tasks, body, t, w) ==
    IF parseThrows(body) \/ parsesToNull(body)
    THEN jsonResponse(400, OutError("Invalid JSON"), f, "none")
    ELSE LET incoming == fieldsOf(body) IN
         IF missingRequired(incoming)
         THEN jsonResponse(400, OutError("Missing required fields"), f, "none")
         ELSE IF ~tasks.arr
         THEN jsonResponse(400, OutError("Invalid JSON"), f, "store")
         ELSE LET pushed == Append(tasks.items, newTask(incoming, t)) IN
              IF saveThrows(w)
              THEN jsonResponse(400, OutError("Invalid JSON"), saveTasks(f, pushed, w), "write")
              ELSE jsonResponse(201, OutTask(newTask(incoming, t)), saveTasks(f, pushed, w), "none")

\* server.js:154-168, the 'end' callback of PUT /api/tasks/:id.
putEnd(f, tasks, id, body, w) ==
    IF parseThrows(body)
    THEN jsonResponse(400, OutError("Invalid JSON"), f, "none")
    ELSE IF ~tasks.arr
    THEN jsonResponse(400, OutError("Invalid JSON"), f, "store")
    ELSE LET index == findIndex(tasks.items, id) IN
         IF index = -1
         THEN jsonResponse(404, OutError("Task not found"), f, "none")
         ELSE LET merged == spread(tasks.items[index], fieldsOf(body), id)
                  updated == [tasks.items EXCEPT ![index] = merged]
              IN  IF saveThrows(w)
                  THEN jsonResponse(400, OutError("Invalid JSON"), saveTasks(f, updated, w), "write")
                  ELSE jsonResponse(200, OutTask(merged), saveTasks(f, updated, w), "none")

\* server.js:113-114 and 172-181, DELETE /api/tasks/:id, all in the
\* 'request' callback and outside any try block.
deleteTask(f, id, w) ==
    LET tasks == loadTasks(f) IN
    IF ~tasks.arr
    THEN uncaught(f, "store")
    ELSE LET index == findIndex(tasks.items, id) IN
         IF index = -1
         THEN jsonResponse(404, OutError("Task not found"), f, "none")
         ELSE IF saveThrows(w)
         THEN uncaught(saveTasks(f, splice(tasks.items, index), w), "write")
         ELSE jsonResponse(200, OutTask(tasks.items[index]),
                           saveTasks(f, splice(tasks.items, index), w), "none")

\* Mutant of getTasks: the list is answered newest first.
getTasks_newestFirst(f) ==
    LET tasks == loadTasks(f) IN
    jsonResponse(200,
                 OutLoaded([tasks EXCEPT !.items =
                               [i \in 1..Len(@) |-> @[Len(@) + 1 - i]]]),
                 f, "none")

\* server.js:113-118, GET /api/tasks.
getTasks(f) == jsonResponse(200, OutLoaded(loadTasks(f)), f, "none")

\* ------------------------------------------------------------------ state
\* pc: "idle" (not arrived, or answered), "POST" or "PUT" (waiting for 'end').
\* tasks: the const `tasks` of server.js:114.
\* missed (history): the writes other requests have saved since this one
\* loaded, each with the number of the request and the task it wrote, when
\* that task is not in `tasks`.
Idle == [pc |-> "idle", id |-> "", tasks |-> Arr(<<>>), missed |-> {}]
Waiting(method, id, f) ==
    [pc |-> method, id |-> id, tasks |-> loadTasks(f), missed |-> {}]
\* r: the number of the request (0 for GET and DELETE); lost: its `missed`.
NoResp ==
    [r |-> 0, method |-> "none", id |-> "", status |-> 0, out |-> NoOut,
     fault |-> "none", lost |-> {}]
Response(r, method, id, res, lost) ==
    [r |-> r, method |-> method, id |-> id, status |-> res.status,
     out |-> res.out, fault |-> res.fault, lost |-> lost]

\* Mutant of captured: the 'end' callback loads the file again.
captured_reloaded(req, f) == loadTasks(f)

\* The `tasks` an 'end' callback works on: the array its closure captured
\* in the 'request' callback (server.js:114), not the file as it is now (f).
captured(req, f) == req.tasks

\* The requests after request r has answered with res: r is over, and a
\* successful save of r is a write the others in flight have missed.
afterEnd(rs, r, res) ==
    [ b \in DOMAIN rs |->
        IF b = r THEN Idle
        ELSE IF /\ rs[b].pc # "idle"
                /\ res.status \in {200, 201}
                /\ res.out.items[1] \notin { rs[b].tasks.items[i] : i \in 1..Len(rs[b].tasks.items) }
        THEN [rs[b] EXCEPT !.missed = @ \cup {[by |-> r, task |-> res.out.items[1]]}]
        ELSE rs[b] ]

Items(s) == { s[i] : i \in 1..Len(s) }
IdsOf(s) == [ i \in 1..Len(s) |-> s[i].id ]

\* What tasks.json may hold when the server is started.
InitialFiles ==
    { FileOf("absent", <<>>), FileOf("empty", <<>>), FileOf("garbage", <<>>),
      FileOf("nonarray", <<>>), FileOf("array", <<>>) }

Init ==
    /\ tasksFile \in InitialFiles
    /\ reqs = [r \in Slots |-> Idle]
    /\ served = 0
    /\ now = 1
    /\ up = TRUE
    /\ resp = NoResp
    /\ issued = {}
    /\ deleted = {}
    /\ trip = [stage |-> "none", task |-> <<>>]

\* ---------------------------------------------------------------- actions
\* Time passes: Date.now() grows by a millisecond.
Tick ==
    /\ now < MaxNow
    /\ now' = now + 1
    /\ resp' = NoResp
    /\ UNCHANGED <<tasksFile, reqs, served, up, issued, deleted>>

\* server.js:113-118
Get ==
    /\ up
    /\ resp' = Response(0, "GET", "", getTasks(tasksFile), {})
    /\ UNCHANGED <<tasksFile, reqs, served, now, up, issued, deleted>>

\* server.js:113-114, 120-122, 147: the 'request' callback of a POST.
PostArrive ==
    /\ up
    /\ served < MaxRequests
    /\ served' = served + 1
    /\ reqs' = [reqs EXCEPT ![served + 1] = Waiting("POST", "", tasksFile)]
    /\ resp' = NoResp
    /\ UNCHANGED <<tasksFile, now, up, issued, deleted>>

\* server.js:123-146
PostEnd(r, body, w) ==
    /\ up
    /\ reqs[r].pc = "POST"
    /\ LET res == postEnd(tasksFile, captured(reqs[r], tasksFile), body, now, w) IN
        /\ tasksFile' = res.file
        /\ resp' = Response(r, "POST", "", res, reqs[r].missed)
        /\ reqs' = afterEnd(reqs, r, res)
        /\ issued' = IF res.status = 201 THEN issued \cup {res.out.items[1].id} ELSE issued
        /\ deleted' = IF res.status = 201 THEN deleted \ {res.out.items[1].id} ELSE deleted
    /\ UNCHANGED <<served, now, up>>

\* server.js:113-114, 150-153, 169: the 'request' callback of a PUT.
PutArrive(id) ==
    /\ up
    /\ served < MaxRequests
    /\ served' = served + 1
    /\ reqs' = [reqs EXCEPT ![served + 1] = Waiting("PUT", id, tasksFile)]
    /\ resp' = NoResp
    /\ UNCHANGED <<tasksFile, now, up, issued, deleted>>

\* server.js:154-168
PutEnd(r, body, w) ==
    /\ up
    /\ reqs[r].pc = "PUT"
    /\ LET res == putEnd(tasksFile, captured(reqs[r], tasksFile), reqs[r].id, body, w) IN
        /\ tasksFile' = res.file
        /\ resp' = Response(r, "PUT", reqs[r].id, res, reqs[r].missed)
        /\ reqs' = afterEnd(reqs, r, res)
    /\ UNCHANGED <<served, now, up, issued, deleted>>

\* server.js:113-114, 172-181. An exception that leaves the 'request'
\* callback ends the process, and with it every request in flight.
Delete(id, w) ==
    /\ up
    /\ served < MaxRequests
    /\ served' = served + 1
    /\ LET res == deleteTask(tasksFile, id, w) IN
        /\ tasksFile' = res.file
        /\ resp' = Response(0, "DELETE", id, res, {})
        /\ up' = ~res.crash
        /\ reqs' = IF res.crash THEN [r \in Slots |-> Idle] ELSE reqs
        /\ deleted' = IF res.status = 200 THEN deleted \cup {id} ELSE deleted
    /\ UNCHANGED <<now, issued>>

\* server.js:100, 195-198: node backend/server.js is started again. The
\* process keeps nothing between requests but the file.
Restart ==
    /\ up' = TRUE
    /\ reqs' = [r \in Slots |-> Idle]
    /\ resp' = NoResp
    /\ UNCHANGED <<tasksFile, served, now, issued, deleted>>

\* --------------------------------------------------------- service worker
\* service-worker.js. A URL path is the sequence of its segments: '/' is
\* <<>>, '/api/tasks/1' is <<"api", "tasks", "1">>, '/api/' is <<"api", "">>.
\* A cache name is the sequence of its words between the '-'.
CACHE_NAME == <<"daily", "planner", "v1">>
urlsToCache ==
    { <<>>, <<"index.html">>, <<"style.css">>, <<"app.js">>, <<"manifest.json">>,
      <<"icon-192.png">>, <<"icon-512.png">> }

\* The requests the page and the browser send through the worker.
FetchPaths ==
    { <<"index.html">>, <<"photo.png">>, <<"api">>, <<"api", "tasks">>,
      <<"api", "tasks", "1">> }

\* Mutant of startsWithApi: only the collection route bypasses the cache.
startsWithApi_tasksOnly(path) == path = <<"api", "tasks">>

\* service-worker.js:44  url.pathname.startsWith('/api/')
startsWithApi(path) == Len(path) >= 2 /\ path[1] = "api"

\* service-worker.js:33  name.startsWith('daily-planner-') && name !== CACHE_NAME
outdated(name) ==
    /\ Len(name) >= 3
    /\ name[1] = "daily"
    /\ name[2] = "planner"
    /\ name # CACHE_NAME

\* A cache: request path -> version of the response stored for it.
NoEntries == [p \in {} |-> 0]
\* caches.open(name): the cache is created when there is none.
open(storage, name) ==
    IF name \in DOMAIN storage THEN storage
    ELSE [n \in (DOMAIN storage) \cup {name} |->
            IF n = name THEN NoEntries ELSE storage[n]]
\* cache.put and cache.addAll: the entries of `paths` are set to version ver.
putAll(storage, name, paths, ver) ==
    [open(storage, name) EXCEPT ![name] =
        [p \in (DOMAIN @) \cup paths |-> IF p \in paths THEN ver ELSE @[p]]]
\* caches.match(request): the versions the caches hold for the path (the
\* first cache that has one answers).
matches(storage, path) ==
    { storage[n][path] : n \in { m \in DOMAIN storage : path \in DOMAIN storage[m] } }

\* What a browser may hold when the worker is registered: nothing, or the
\* cache of an older release and a cache of another application.
NoStorage == [n \in {} |-> NoEntries]
InitialStorage ==
    { NoStorage,
      [n \in {<<"daily", "planner", "v0">>, <<"notes">>} |->
          IF n = <<"notes">> THEN [p \in {<<"photo.png">>} |-> 0]
          ELSE [p \in {<<"index.html">>, <<"api", "tasks">>} |-> 0]] }

\* How a fetch event was answered: from "cache" or "network"; ok is FALSE
\* when the network gave no response (the promise is rejected).
NoAnswer == [path |-> <<>>, from |-> "none", ok |-> FALSE, ver |-> 0]
Answer(path, from, ok, ver) == [path |-> path, from |-> from, ok |-> ok, ver |-> ver]

WorkerInit ==
    /\ caches \in InitialStorage
    /\ worker = [phase |-> "parsed", puts |-> {}]
    /\ swOut = NoAnswer
    /\ netVer = 1

\* service-worker.js:19-25. addAll stores all the responses or none.
Install(online) ==
    /\ worker.phase = "parsed"
    /\ caches' = IF online THEN putAll(caches, CACHE_NAME, urlsToCache, netVer)
                 ELSE open(caches, CACHE_NAME)
    /\ worker' = [worker EXCEPT !.phase = IF online THEN "installed" ELSE "parsed"]
    /\ UNCHANGED <<swOut, netVer>>

\* service-worker.js:27-38
Activate ==
    /\ worker.phase = "installed"
    /\ caches' = [n \in { m \in DOMAIN caches : ~outdated(m) } |-> caches[n]]
    /\ worker' = [worker EXCEPT !.phase = "activated"]
    /\ UNCHANGED <<swOut, netVer>>

\* service-worker.js:40-63. cache.put is started and not awaited: the
\* response is returned while the entry is still being written.
Fetch(path, online) ==
    /\ worker.phase = "activated"
    /\ IF startsWithApi(path)
       THEN /\ swOut' = Answer(path, "network", online, IF online THEN netVer ELSE 0)
            /\ UNCHANGED <<caches, worker>>
       ELSE IF matches(caches, path) # {}
       THEN /\ \E v \in matches(caches, path) : swOut' = Answer(path, "cache", TRUE, v)
            /\ UNCHANGED <<caches, worker>>
       ELSE IF online
       THEN /\ swOut' = Answer(path, "network", TRUE, netVer)
            /\ caches' = open(caches, CACHE_NAME)
            /\ worker' = [worker EXCEPT !.puts = @ \cup {[path |-> path, ver |-> netVer]}]
       ELSE /\ swOut' = Answer(path, "network", FALSE, 0)
            /\ UNCHANGED <<caches, worker>>
    /\ UNCHANGED netVer

\* service-worker.js:57: a cache.put that was started completes.
PutDone(put) ==
    /\ put \in worker.puts
    /\ caches' = putAll(caches, CACHE_NAME, {put.path}, put.ver)
    /\ worker' = [worker EXCEPT !.puts = @ \ {put}]
    /\ UNCHANGED <<swOut, netVer>>

\* The site is deployed anew: the network answers with the next version.
Deploy ==
    /\ netVer < MaxVersion
    /\ netVer' = netVer + 1
    /\ UNCHANGED <<caches, worker, swOut>>

\* app.js:174-178 registers the worker at every load of the page; after the
\* registration was removed, the worker is installed and activated again.
Register ==
    /\ worker.phase = "activated"
    /\ worker' = [worker EXCEPT !.phase = "parsed"]
    /\ UNCHANGED <<caches, swOut, netVer>>

\* ------------------------------------------------------------------- page
\* frontend/app.js. The page's requests are the server's requests: a click
\* is the arrival of its POST, PUT or DELETE at the server, and every
\* response travels back for as long as it likes, so that responses reach
\* the page in any order. Action 0 is the loadTasks() of the page load;
\* action k >= 1 is the click that sends the server's request number k.
Clicks == 0..MaxRequests

\* pc: "idle"     not clicked
\*     "sent"     POST or PUT at the server, between 'request' and 'end'
\*     "answered" the fetch of the action is settled, loadTasks() is next
\*     "listed"   the server has answered the GET of loadTasks(): list
\*     "done"     renderTasks has run
\*     "failed"   a fetch of the action was rejected, the action ends there
NotClicked == [pc |-> "idle", method |-> "", want |-> FALSE, list |-> NoOut]
Sent(method, want) == [pc |-> "sent", method |-> method, want |-> want, list |-> NoOut]
Over(pc, list) == [pc |-> pc, method |-> "", want |-> FALSE, list |-> list]

\* app.js:157-165: what the form sends, with and without a start time.
FormBodies ==
    { Obj([date |-> "d1", startTime |-> "s1", endTime |-> "", category |-> "",
           description |-> "x"]),
      Obj([date |-> "d1", startTime |-> "", endTime |-> "", category |-> "",
           description |-> "x"]) }

\* String.prototype.localeCompare on the strings of the model.
Collation == <<"", "d1", "e1", "s1", "x", "zz">>
rank(s) == CHOOSE i \in 1..Len(Collation) : Collation[i] = s
\* app.js:84-89: the comparator is negative, a sorts before b.
sortsBefore(a, b) ==
    IF a.date = b.date
    THEN rank(OrEmpty(a, "startTime")) < rank(OrEmpty(b, "startTime"))
    ELSE rank(a.date) < rank(b.date)
\* Array.prototype.sort, which is stable: t goes behind the last task that
\* does not sort after it.
RECURSIVE insertSorted(_, _)
insertSorted(sorted, t) ==
    IF sorted = <<>> THEN <<t>>
    ELSE IF sortsBefore(t, sorted[Len(sorted)])
    THEN Append(insertSorted(SubSeq(sorted, 1, Len(sorted) - 1), t), sorted[Len(sorted)])
    ELSE Append(sorted, t)
RECURSIVE sort(_)
sort(tasks) ==
    IF tasks = <<>> THEN <<>>
    ELSE insertSorted(sort(SubSeq(tasks, 1, Len(tasks) - 1)), tasks[Len(tasks)])

\* app.js:76-153: the tasks in the list after renderTasks(out). The list is
\* emptied first (line 77); a body that is no array has no length to show.
renderTasks(out) ==
    IF out.kind = "tasks" THEN sort(out.items) ELSE <<>>

PageInit ==
    /\ acts = [k \in Clicks |-> IF k = 0 THEN Over("answered", NoOut) ELSE NotClicked]
    /\ rendered = <<>>

\* What a click leaves of the other actions when the server process ends:
\* the fetch of a request in flight is rejected, its action ends there
\* (app.js:37-44, 52-59: no reload after a rejected fetch).
rejected(as) ==
    [k \in Clicks |-> IF as[k].pc = "sent" THEN Over("failed", NoOut) ELSE as[k]]

\* app.js:156-168, 37-43: the form is submitted, the POST arrives.
ClickAdd ==
    /\ PostArrive
    /\ acts' = [acts EXCEPT ![served + 1] = Sent("POST", FALSE)]
    /\ UNCHANGED rendered

\* app.js:38-43: the server answers the POST, whatever the status.
AddAnswered(k, body, w) ==
    /\ acts[k].pc = "sent"
    /\ acts[k].method = "POST"
    /\ PostEnd(k, body, w)
    /\ acts' = [acts EXCEPT ![k] = Over("answered", NoOut)]
    /\ UNCHANGED rendered

\* app.js:112-114, 52-58: the toggle button of a task on the page.
ClickToggle(t) ==
    /\ PutArrive(t.id)
    /\ acts' = [acts EXCEPT ![served + 1] = Sent("PUT", ~t.completed)]
    /\ UNCHANGED rendered

\* app.js:53-58: the server answers the PUT, whatever the status.
ToggleAnswered(k, w) ==
    /\ acts[k].pc = "sent"
    /\ acts[k].method = "PUT"
    /\ PutEnd(k, Obj([completed |-> acts[k].want]), w)
    /\ acts' = [acts EXCEPT ![k] = Over("answered", NoOut)]
    /\ UNCHANGED rendered

\* app.js:141-145, 65-68: the delete button of a task on the page. The
\* DELETE is answered in the 'request' callback, or the server process ends.
ClickDelete(t, w) ==
    /\ Delete(t.id, w)
    /\ acts' = IF up'
               THEN [acts EXCEPT ![served + 1] = Over("answered", NoOut)]
               ELSE [rejected(acts) EXCEPT ![served + 1] = Over("failed", NoOut)]
    /\ UNCHANGED rendered

\* app.js:23-26: loadTasks() sends GET /api/tasks and the server answers;
\* with the server gone the fetch is rejected and caught (lines 28-30).
Reload(k) ==
    /\ acts[k].pc = "answered"
    /\ IF up
       THEN /\ Get
            /\ acts' = [acts EXCEPT ![k] = Over("listed", resp'.out)]
       ELSE /\ acts' = [acts EXCEPT ![k] = Over("failed", NoOut)]
            /\ resp' = NoResp
            /\ UNCHANGED <<tasksFile, reqs, served, now, up, issued, deleted>>
    /\ UNCHANGED rendered

\* app.js:26-27: the response of the GET has arrived and is rendered.
Render(k) ==
    /\ acts[k].pc = "listed"
    /\ rendered' = renderTasks(acts[k].list)
    /\ acts' = [acts EXCEPT ![k] = Over("done", NoOut)]
    /\ resp' = NoResp
    /\ UNCHANGED <<tasksFile, reqs, served, now, up, issued, deleted>>

\* ------------------------------------------------------ the three programs
\* The run of a round trip: a Create answered 201, then only restarts, then
\* a List. Any other step ends the run.
NoTrip == [stage |-> "none", task |-> <<>>]
tripAfter(event) ==
    CASE event = "post" /\ resp'.status = 201 ->
            [stage |-> "created", task |-> resp'.out.items]
      [] event = "restart" /\ trip.stage \in {"created", "restarted"} ->
            [stage |-> "restarted", task |-> trip.task]
      [] event = "get" /\ trip.stage = "restarted" ->
            [stage |-> "listed", task |-> trip.task]
      [] OTHER -> NoTrip

\* A step of the server alone: the worker and the page are not running.
Alone(event) ==
    /\ trip' = tripAfter(event)
    /\ UNCHANGED <<workerVars, pageVars>>

Next ==
    \/ Tick /\ Alone("tick")
    \/ Get /\ Alone("get")
    \/ PostArrive /\ Alone("arrive")
    \/ \E r \in Slots, body \in PostBodies, w \in WriteOutcomes :
            PostEnd(r, body, w) /\ Alone("post")
    \/ \E id \in PathIds : PutArrive(id) /\ Alone("arrive")
    \/ \E r \in Slots, body \in PutBodies, w \in WriteOutcomes :
            PutEnd(r, body, w) /\ Alone("put")
    \/ \E id \in PathIds, w \in WriteOutcomes : Delete(id, w) /\ Alone("delete")
    \/ Restart /\ Alone("restart")

\* The server is started; the browser holds no cache, and the page, once
\* loaded, is left alone.
Start == Init /\ WorkerInit /\ caches = NoStorage /\ PageInit

Spec == Start /\ [][Next]_vars

\* A step of the worker alone, against a server that is not being asked.
Offstage == UNCHANGED <<serverVars, trip, pageVars>>

SWNext ==
    \/ \E online \in BOOLEAN : Install(online) /\ Offstage
    \/ Activate /\ Offstage
    \/ \E path \in FetchPaths, online \in BOOLEAN : Fetch(path, online) /\ Offstage
    \/ \E put \in worker.puts : PutDone(put) /\ Offstage
    \/ Deploy /\ Offstage
    \/ Register /\ Offstage

SWStart == Init /\ tasksFile = FileOf("array", <<>>) /\ WorkerInit /\ PageInit

SWSpec == SWStart /\ [][SWNext]_vars

\* A step of the page and the server, the worker passing every request of
\* the API to the network (service-worker.js:44-47).
Through == UNCHANGED <<trip, workerVars>>

PageNext ==
    \/ Tick /\ UNCHANGED pageVars /\ Through
    \/ ClickAdd /\ Through
    \/ \E k \in Slots, body \in FormBodies, w \in WriteOutcomes :
            AddAnswered(k, body, w) /\ Through
    \/ \E t \in Items(rendered) : ClickToggle(t) /\ Through
    \/ \E k \in Slots, w \in WriteOutcomes : ToggleAnswered(k, w) /\ Through
    \/ \E t \in Items(rendered), w \in WriteOutcomes : ClickDelete(t, w) /\ Through
    \/ \E k \in Clicks : Reload(k) /\ Through
    \/ \E k \in Clicks : Render(k) /\ Through

PageSpec == Start /\ [][PageNext]_vars

\* ------------------------------------------------------------------ claims
StoredItems(f) == loadTasks(f).items
FirstWithId(items, id) ==
    CHOOSE i \in 1..Len(items) :
        /\ items[i].id = id
        /\ \A j \in 1..(i - 1) : items[j].id # id

\* A body in which key k is missing or empty.
Lacks(body, k) ==
    \/ body.kind # "object"
    \/ k \notin DOMAIN body.fields
    \/ body.fields[k] = ""

UniqueIds(items) ==
    \A i, j \in 1..Len(items) : i # j => items[i].id # items[j].id

\* C2: no two tasks of the persisted collection have the same id, and a
\* Create never assigns an id that an earlier Create has assigned.
C2_IdsUniqueNeverReused ==
    [][ /\ UniqueIds(StoredItems(tasksFile'))
        /\ \A r \in Slots, body \in PostBodies, w \in WriteOutcomes :
             (PostEnd(r, body, w) /\ resp'.status = 201)
             => resp'.out.items[1].id \notin issued ]_vars

C4_IdImmutable ==
    [][ /\ (resp'.method = "PUT" /\ resp'.status = 200)
             => /\ reqs[resp'.r].pc = "PUT"
                /\ resp'.id = reqs[resp'.r].id
                /\ resp'.out.items[1].id = reqs[resp'.r].id
                /\ IdsOf(StoredItems(tasksFile')) = IdsOf(reqs[resp'.r].tasks.items)
        /\ \A t \in Items(StoredItems(tasksFile')) : t.id \in issued' ]_vars

\* A PUT whose body carried the id "zz" (the body that empties the
\* description) was answered 200 with the id of its path.
C4_Witness ==
    /\ resp.method = "PUT"
    /\ resp.status = 200
    /\ resp.out.items[1].description = ""
    /\ resp.out.items[1].id = resp.id
    /\ resp.out.items[1] \in Items(StoredItems(tasksFile))

\* C5: a DELETE of an id that is in the store makes the persisted collection
\* one shorter and leaves no task with that id; a DELETE of an id that is
\* not in the store is answered 404 and leaves the file as it was. (Stated
\* for a file that holds an array and a write that succeeds.)
C5_DeleteExactlyOne ==
    [][ \A id \in PathIds :
          (Delete(id, "ok") /\ tasksFile.kind = "array")
          => IF \E i \in 1..Len(StoredItems(tasksFile)) : StoredItems(tasksFile)[i].id = id
             THEN /\ Len(StoredItems(tasksFile')) = Len(StoredItems(tasksFile)) - 1
                  /\ \A t \in Items(StoredItems(tasksFile')) : t.id # id
             ELSE /\ resp'.status = 404
                  /\ tasksFile' = tasksFile ]_vars

\* C6: a task that a DELETE answered 200 for never comes into the persisted
\* collection again: a task that a step adds to the file and whose id is a
\* deleted one can only be the new task of a Create answered 201.
C6_DeletionPermanent ==
    [][ \A t \in Items(StoredItems(tasksFile')) \ Items(StoredItems(tasksFile)) :
          t.id \in deleted
          => /\ resp'.method = "POST"
             /\ resp'.status = 201
             /\ t = resp'.out.items[1] ]_vars

\* C7: when a POST or PUT is answered with success, every write it missed
\* (a task another request saved after this one had loaded) is gone from
\* the file, unless it is the very task this request wrote.
C7_LostWrite ==
    (resp.method \in {"POST", "PUT"} /\ resp.status \in {200, 201})
    => \A m \in resp.lost :
          m.task \in Items(StoredItems(tasksFile)) => m.task = resp.out.items[1]

\* Request A (m.by) arrived before request B (resp.r), B loaded before A
\* saved, both were answered with success, and A's task is not in the file
\* after B's save.
C7_Witness ==
    /\ resp.method \in {"POST", "PUT"}
    /\ resp.status \in {200, 201}
    /\ \E m \in resp.lost :
          /\ m.by < resp.r
          /\ m.task \notin Items(StoredItems(tasksFile))

\* C8: a PUT (with a body that parses, on a loaded array) whose id is not in
\* the file when its update is applied is answered 404 and leaves the file
\* as it was.
C8_UpdateSeesLatest ==
    [][ \A r \in Slots, body \in PutBodies :
          ( /\ PutEnd(r, body, "ok")
            /\ ~parseThrows(body)
            /\ reqs[r].tasks.arr
            /\ \A t \in Items(StoredItems(tasksFile)) : t.id # reqs[r].id )
          => /\ resp'.status = 404
             /\ tasksFile' = tasksFile ]_vars

\* C9: when the file holds no task array (absent, empty, not JSON, or JSON
\* that is no array), load yields the empty array and GET, which answers
\* with what load yielded, answers 200 with an empty array.
C9_MalformedStoreResilience ==
    (tasksFile.kind # "array" /\ resp.method = "GET")
    => /\ loadTasks(tasksFile) = Arr(<<>>)
       /\ resp.status = 200
       /\ resp.out = [kind |-> "tasks", items |-> <<>>, error |-> ""]

\* C10: a request during which the write of the file failed is answered
\* with a 5xx status and an error object, and the server stays up.
C10_WriteFaultIs5xx ==
    resp.fault = "write"
    => /\ up
       /\ resp.status >= 500 /\ resp.status <= 599
       /\ resp.out.kind = "error"

\* C11: a Create answered 201 returns a task with the id the service has
\* assigned, the date, startTime and description of the body, the endTime
\* and category of the body or "" where the body has none, and completed
\* false; the store then holds what it held before the save, in that order,
\* followed by exactly that task.
C11_CreateAppends ==
    [][ (resp'.method = "POST" /\ resp'.status = 201)
        => \E body \in PostBodies :
              /\ PostEnd(resp'.r, body, "ok")
              /\ LET sent == fieldsOf(body)
                     t == resp'.out.items[1] IN
                  /\ t.id = ToString(now)
                  /\ t.date = sent.date
                  /\ t.startTime = sent.startTime
                  /\ t.description = sent.description
                  /\ t.endTime = (IF Has(sent, "endTime") THEN sent.endTime ELSE "")
                  /\ t.category = (IF Has(sent, "category") THEN sent.category ELSE "")
                  /\ t.completed = FALSE
                  /\ StoredItems(tasksFile') = Append(StoredItems(tasksFile), t) ]_vars

\* C12: after a Create has answered 201 and the server has been started
\* again (its memory and its requests in flight are gone, the store is read
\* from the file), List answers 200 with a collection that contains the
\* created task, every field as the Create returned it.
C12_RoundTrip ==
    trip.stage = "listed"
    => /\ resp.method = "GET"
       /\ resp.status = 200
       /\ resp.out.kind = "tasks"
       /\ \E i \in 1..Len(resp.out.items) : resp.out.items[i] = trip.task[1]

\* Such a List has answered, with the created task after an older one.
C12_Witness ==
    /\ trip.stage = "listed"
    /\ Len(resp.out.items) = 2
    /\ resp.out.items[2] = trip.task[1]
    /\ resp.out.items[1] # trip.task[1]

\* C13: whatever a save does, also one that fails or stops part-way, a load
\* afterwards yields the whole collection as it was before that save or the
\* whole collection the save was given, never anything else.
C13_SaveAtomic ==
    [][ LET after == loadTasks(tasksFile') IN
        \/ after = loadTasks(tasksFile)
        \/ /\ resp'.method = "POST"
           /\ \E body \in PostBodies :
                after = loadTasks(postEnd(tasksFile, captured(reqs[resp'.r], tasksFile),
                                          body, now, "ok").file)
        \/ /\ resp'.method = "PUT"
           /\ \E body \in PutBodies :
                after = loadTasks(putEnd(tasksFile, captured(reqs[resp'.r], tasksFile),
                                         resp'.id, body, "ok").file)
        \/ /\ resp'.method = "DELETE"
           /\ after = loadTasks(deleteTask(tasksFile, resp'.id, "ok").file) ]_vars

\* C14: a Create stores its task with completed false, and from one
\* persisted state to the next the completed of a task that is in both
\* (found by its id) differs only when the step is a PUT of that id answered
\* 200 whose body has the key completed.
C14_CompletedOnlyByUpdate ==
    [][ LET before == StoredItems(tasksFile)
            after == StoredItems(tasksFile') IN
        /\ (resp'.method = "POST" /\ resp'.status = 201)
              => /\ resp'.out.items[1].completed = FALSE
                 /\ resp'.out.items[1] \in Items(after)
        /\ \A id \in PathIds :
              ( /\ id \in Items(IdsOf(before))
                /\ id \in Items(IdsOf(after))
                /\ before[FirstWithId(before, id)].completed
                      # after[FirstWithId(after, id)].completed )
              => /\ resp'.method = "PUT"
                 /\ resp'.status = 200
                 /\ resp'.id = id
                 /\ \E body \in PutBodies :
                      /\ body.kind = "object"
                      /\ Has(body.fields, "completed")
                      /\ PutEnd(resp'.r, body, "ok") ]_vars

\* C15: a GET /api/tasks is answered 200 with the tasks of the store, in the
\* order in which the store holds them, and leaves the store as it was.
C15_ListReadOnlyInOrder ==
    [][ resp'.method = "GET"
        => /\ resp'.status = 200
           /\ tasksFile' = tasksFile
           /\ resp'.out.items = StoredItems(tasksFile)
           /\ tasksFile.kind = "array" => resp'.out.items = tasksFile.items ]_vars

\* A List has answered with two different tasks, in the order of the file.
C15_Witness ==
    /\ resp.method = "GET"
    /\ resp.status = 200
    /\ Len(tasksFile.items) = 2
    /\ tasksFile.items[1] # tasksFile.items[2]
    /\ resp.out.items = tasksFile.items

\* C16: a POST whose body has a non-empty date and a non-empty description
\* and no startTime is answered 201 with the new task, and the store then
\* holds that task.
C16_StartTimeOptional ==
    [][ resp'.method = "POST"
        => \A body \in PostBodies :
              ( /\ ~Lacks(body, "date")
                /\ ~Lacks(body, "description")
                /\ ~Has(fieldsOf(body), "startTime")
                /\ PostEnd(resp'.r, body, "ok") )
              => /\ resp'.status = 201
                 /\ resp'.out.kind = "task"
                 /\ resp'.out.items[1] \in Items(StoredItems(tasksFile')) ]_vars

\* C18: a PUT of an id that the collection it loaded holds, with a body that
\* sets description (or date, or startTime) to "", is answered 200 once the
\* file is written, and the returned and the stored task have that empty
\* value; a POST whose body has the same empty value is answered 400.
C18_UpdateNotValidated ==
    [][ /\ resp'.method = "PUT"
           => \A body \in PutBodies, k \in {"description", "date", "startTime"} :
                ( /\ body.kind = "object"
                  /\ Has(body.fields, k)
                  /\ body.fields[k] = ""
                  /\ reqs[resp'.r].tasks.arr
                  /\ findIndex(reqs[resp'.r].tasks.items, resp'.id) # -1
                  /\ PutEnd(resp'.r, body, "ok") )
                => /\ resp'.status = 200
                   /\ resp'.out.items[1][k] = ""
                   /\ LET stored == StoredItems(tasksFile') IN
                         stored[FirstWithId(stored, resp'.id)][k] = ""
        /\ resp'.method = "POST"
           => \A body \in PostBodies, k \in {"description", "date", "startTime"} :
                ( /\ body.kind = "object"
                  /\ Has(body.fields, k)
                  /\ body.fields[k] = ""
                  /\ PostEnd(resp'.r, body, "ok") )
                => /\ resp'.status = 400
                   /\ tasksFile' = tasksFile ]_vars

\* An Update has emptied the description of a stored task.
C18_Witness ==
    /\ resp.method = "PUT"
    /\ resp.status = 200
    /\ resp.out.items[1].description = ""
    /\ resp.out.items[1] \in Items(StoredItems(tasksFile))

\* C19: after a PUT /api/tasks/{id} answered 200 the store has as many tasks,
\* with the same ids in the same order, as it had just before that PUT
\* saved, and every task but the first one with id {id} is as the store held
\* it just before that save.
C19_UpdateOnlyTarget ==
    [][ (resp'.method = "PUT" /\ resp'.status = 200)
        => LET before == StoredItems(tasksFile)
               after == StoredItems(tasksFile') IN
           /\ Len(after) = Len(before)
           /\ IdsOf(after) = IdsOf(before)
           /\ \A i \in 1..Len(after) :
                i # FirstWithId(after, resp'.id) => after[i] = before[i] ]_vars

\* The path of the request starts with /api/.
IsApiPath(path) == Len(path) >= 2 /\ path[1] = "api"
\* The entries of the worker's cache, those being written included.
Cached ==
    (IF CACHE_NAME \in DOMAIN caches THEN DOMAIN caches[CACHE_NAME] ELSE {})
        \cup { put.path : put \in worker.puts }

\* C17: whatever install, activate and fetch events have happened, the
\* worker's cache holds no entry for a path that starts with /api/, and a
\* fetch event is answered: for such a path by the network (with the version
\* the network serves now) and never by a cache; for another path by a cache
\* when caches.match finds an entry, and else by the network, the response
\* then being put into the worker's cache.
C17_ApiNetworkOnly ==
    [][ /\ \A p \in Cached' : ~IsApiPath(p)
        /\ \A path \in FetchPaths, online \in BOOLEAN :
              Fetch(path, online)
              => IF IsApiPath(path)
                 THEN /\ swOut'.from = "network"
                      /\ swOut'.ok => swOut'.ver = netVer
                      /\ caches' = caches
                 ELSE IF matches(caches, path) # {}
                 THEN /\ swOut'.from = "cache"
                      /\ swOut'.ver \in matches(caches, path)
                      /\ caches' = caches
                 ELSE /\ swOut'.from = "network"
                      /\ swOut'.ok
                            => [path |-> path, ver |-> swOut'.ver] \in worker'.puts
        /\ \A put \in worker.puts :
              PutDone(put) => caches'[CACHE_NAME][put.path] = put.ver ]_vars

\* The network has answered /api/tasks/1 with the current version while the
\* worker's cache holds older entries, one of them stored after a fetch.
C17_Witness ==
    /\ swOut.path = <<"api", "tasks", "1">>
    /\ swOut.from = "network"
    /\ swOut.ok
    /\ swOut.ver = netVer
    /\ CACHE_NAME \in DOMAIN caches
    /\ <<"photo.png">> \in DOMAIN caches[CACHE_NAME]
    /\ caches[CACHE_NAME][<<"photo.png">>] < netVer
    /\ <<"api">> \in DOMAIN caches[CACHE_NAME]

\* Every action the user has triggered is over: its request and the reload
\* after it are answered and the reload is rendered, and so is the
\* loadTasks() of the page load; no fetch was rejected.
Settled ==
    /\ \A k \in Clicks : acts[k].pc \in {"idle", "done"}
    /\ acts[0].pc = "done"
    /\ \E k \in Slots : acts[k].pc = "done"

\* C20: once every action of the user is over, the responses having arrived
\* in whatever order, the list renderTasks has last drawn holds exactly the
\* tasks of the server's store.
C20_ViewConverges ==
    Settled => Items(rendered) = Items(StoredItems(tasksFile))

====
